---- MODULE Spec2Model ----
(***************************************************************************)
(* A model of analyze_pcd_file (src/analyze_pcd.py): the PCD header lexer, *)
(* the header_info builder, the row size / field offset computation, the   *)
(* data segment bounds and the sample row decoder.  A file is a sequence   *)
(* of bytes, each byte a one-character string; text operations are         *)
(* modelled on those sequences as Python computes them.                    *)
(***************************************************************************)
EXTENDS Integers, Sequences, FiniteSets, TLC

VARIABLES
    path_kind,      \* "missing" | "unopenable" | "file": what file_path names
    fileBytes,      \* the content of the file
    file_size,      \* os.path.getsize(file_path)
    pc,             \* position in analyze_pcd_file
    f,              \* the file object: "none" | "open" | "closed"
    opens,          \* number of open() calls that returned a handle
    f_pos,          \* f.tell()
    header_lines,   \* list of decoded, stripped lines
    line_idx,       \* index of the header line the parse loop is at
    header_info,    \* dict: a function whose DOMAIN is the set of keys present
    row_size,       \* local row_size (meaningful when row_size_bound)
    row_size_bound, \* whether the local row_size has been assigned
    offsets,        \* the (field, offset, size) triples printed by lines 72-75
    data_start,     \* local data_start
    data_size,      \* local data_size
    i,              \* loop variable of the sample loop
    records,        \* the rows printed by the sample loop, one list of values each
    reads,          \* the f.read calls of the sample loop
    out,            \* kinds of the report pieces printed so far
    exc             \* the exception raised or caught, "none" when there is none

vars == <<path_kind, fileBytes, file_size, pc, f, opens, f_pos, header_lines,
          line_idx, header_info, row_size, row_size_bound, offsets, data_start,
          data_size, i, records, reads, out, exc>>

----------------------------------------------------------------------------
(* Bounds of the explored inputs *)

\* longest run of payload bytes appended after the header text
MaxTail == 12
\* longest header assembled freely from the pool of header lines
MaxFree == 3

----------------------------------------------------------------------------
(* Bytes and text *)

\* a byte that is not valid UTF-8; decode(errors='ignore') drops it
BAD == "xFF"

Whitespace == {" ", "\t", "\n", "\r"}

Digits == <<"0", "1", "2", "3", "4", "5", "6", "7", "8", "9">>

Min(a, b) == IF a <= b THEN a ELSE b

Max(a, b) == IF a >= b THEN a ELSE b

\* bytes.decode('utf-8', errors='ignore')
decode(line) == SelectSeq(line, LAMBDA c : c # BAD)

RECURSIVE lstrip(_)
lstrip(s) ==
    IF s # <<>> /\ Head(s) \in Whitespace THEN lstrip(Tail(s)) ELSE s

RECURSIVE rstrip(_)
rstrip(s) ==
    IF s # <<>> /\ s[Len(s)] \in Whitespace
    THEN rstrip(SubSeq(s, 1, Len(s) - 1))
    ELSE s

\* str.strip()
strip(s) == rstrip(lstrip(s))

\* str.startswith(prefix)
startswith(s, prefix) ==
    /\ Len(s) >= Len(prefix)
    /\ SubSeq(s, 1, Len(prefix)) = prefix

\* index of the first whitespace character of s, Len(s) + 1 when there is none
RECURSIVE FirstWhitespace(_, _)
FirstWhitespace(s, n) ==
    IF n > Len(s) \/ s[n] \in Whitespace THEN n ELSE FirstWhitespace(s, n + 1)

\* str.split(): the maximal runs of non-whitespace characters
RECURSIVE split(_)
split(s) ==
    LET t == lstrip(s)
        e == FirstWhitespace(t, 1)
    IN  IF t = <<>> THEN <<>>
        ELSE <<SubSeq(t, 1, e - 1)>> \o split(SubSeq(t, e, Len(t)))

DigitValue(c) == CHOOSE d \in 0..9 : Digits[d + 1] = c

IsDigit(c) == \E d \in 0..9 : Digits[d + 1] = c

RECURSIVE DecimalValue(_)
DecimalValue(ds) ==
    IF ds = <<>> THEN 0
    ELSE 10 * DecimalValue(SubSeq(ds, 1, Len(ds) - 1)) + DigitValue(ds[Len(ds)])

\* int(x) of a token: [ok, val]; ok = FALSE stands for ValueError
int(x) ==
    LET signed == x # <<>> /\ Head(x) \in {"-", "+"}
        ds     == IF signed THEN Tail(x) ELSE x
        valid  == ds # <<>> /\ \A n \in 1..Len(ds) : IsDigit(ds[n])
    IN  IF ~valid THEN [ok |-> FALSE, val |-> 0]
        ELSE [ok |-> TRUE,
              val |-> IF signed /\ Head(x) = "-" THEN 0 - DecimalValue(ds)
                      ELSE DecimalValue(ds)]

\* f.readline() at position pos: the bytes up to and including the next "\n"
RECURSIVE LineEnd(_, _)
LineEnd(bytes, n) ==
    IF n >= Len(bytes) \/ bytes[n] = "\n" THEN Min(n, Len(bytes))
    ELSE LineEnd(bytes, n + 1)

readline(bytes, pos) ==
    IF pos >= Len(bytes) THEN <<>>
    ELSE SubSeq(bytes, pos + 1, LineEnd(bytes, pos + 1))

\* f.read(n) at position pos: at most n bytes, all the rest when n < 0
read(bytes, pos, n) ==
    IF n < 0 THEN SubSeq(bytes, pos + 1, Len(bytes))
    ELSE SubSeq(bytes, pos + 1, Min(pos + n, Len(bytes)))

\* row_data[a:b] for 0 <= a, 0 <= b
Slice(s, a, b) == SubSeq(s, Min(a, Len(s)) + 1, Min(b, Len(s)))

----------------------------------------------------------------------------
(* Header keywords and sentinels *)

kFIELDS == <<"F", "I", "E", "L", "D", "S">>
kSIZE == <<"S", "I", "Z", "E">>
kTYPE == <<"T", "Y", "P", "E">>
kCOUNT == <<"C", "O", "U", "N", "T">>
kWIDTH == <<"W", "I", "D", "T", "H">>
kHEIGHT == <<"H", "E", "I", "G", "H", "T">>
kPOINTS == <<"P", "O", "I", "N", "T", "S">>
kDATA == <<"D", "A", "T", "A">>

tBinary == <<"b", "i", "n", "a", "r", "y">>
tCompressed == tBinary \o <<"_", "c", "o", "m", "p", "r", "e", "s", "s", "e", "d">>
tAscii == <<"a", "s", "c", "i", "i">>

sBinary == kDATA \o <<" ">> \o tBinary
sCompressed == kDATA \o <<" ">> \o tCompressed
sAscii == kDATA \o <<" ">> \o tAscii

\* IsSentinel testing only for a DATA line
IsSentinelPrefix(line_str) == startswith(line_str, kDATA)

\* the test of line 32 that ends the header
IsSentinel(line_str) ==
    line_str = sCompressed \/ line_str = sBinary \/ line_str = sAscii

----------------------------------------------------------------------------
(* header_info: the dict built by lines 41-58 *)

Put(d, key, value) ==
    [k \in DOMAIN d \cup {key} |-> IF k = key THEN value ELSE d[k]]

EmptyDict == [k \in {} |-> 0]

\* [int(x) for x in tokens]: [ok, val]; ok = FALSE stands for ValueError
IntList(tokens) ==
    IF \A n \in 1..Len(tokens) : int(tokens[n]).ok
    THEN [ok |-> TRUE, val |-> [n \in 1..Len(tokens) |-> int(tokens[n]).val]]
    ELSE [ok |-> FALSE, val |-> <<>>]

\* Dispatch with the keyword compared to the whole leading token of the line
DispatchFirstToken(line) ==
    LET toks == split(line)
        t    == IF toks = <<>> THEN <<>> ELSE toks[1]
    IN  IF t = kFIELDS THEN "fields"
        ELSE IF t = kSIZE THEN "sizes"
        ELSE IF t = kTYPE THEN "types"
        ELSE IF t = kCOUNT THEN "counts"
        ELSE IF t = kWIDTH THEN "width"
        ELSE IF t = kHEIGHT THEN "height"
        ELSE IF t = kPOINTS THEN "points"
        ELSE IF t = kDATA THEN "data_type"
        ELSE ""

\* the key a line is dispatched to by the startswith chain, "" when none
Dispatch(line) ==
    IF startswith(line, kFIELDS) THEN "fields"
    ELSE IF startswith(line, kSIZE) THEN "sizes"
    ELSE IF startswith(line, kTYPE) THEN "types"
    ELSE IF startswith(line, kCOUNT) THEN "counts"
    ELSE IF startswith(line, kWIDTH) THEN "width"
    ELSE IF startswith(line, kHEIGHT) THEN "height"
    ELSE IF startswith(line, kPOINTS) THEN "points"
    ELSE IF startswith(line, kDATA) THEN "data_type"
    ELSE ""

\* the value a line assigns to its key: [exc, val]
LineValue(line) ==
    LET key  == Dispatch(line)
        toks == split(line)
        rest == IF toks = <<>> THEN <<>> ELSE Tail(toks)
    IN  IF key \in {"fields", "types"} THEN [exc |-> "none", val |-> rest]
        ELSE IF key \in {"sizes", "counts"}
        THEN IF IntList(rest).ok
             THEN [exc |-> "none", val |-> IntList(rest).val]
             ELSE [exc |-> "ValueError", val |-> 0]
        ELSE IF key \in {"width", "height", "points"}
        THEN IF Len(toks) < 2 THEN [exc |-> "IndexError", val |-> 0]
             ELSE IF int(toks[2]).ok
             THEN [exc |-> "none", val |-> int(toks[2]).val]
             ELSE [exc |-> "ValueError", val |-> 0]
        ELSE IF key = "data_type"
        THEN IF Len(toks) < 2 THEN [exc |-> "IndexError", val |-> 0]
             ELSE [exc |-> "none", val |-> toks[2]]
        ELSE [exc |-> "none", val |-> 0]

\* one iteration of the loop of line 42: [exc, info]
ParseHeaderLine(info, line) ==
    LET key == Dispatch(line)
        v   == LineValue(line)
    IN  IF key = "" THEN [exc |-> "none", info |-> info]
        ELSE IF v.exc # "none" THEN [exc |-> v.exc, info |-> info]
        ELSE [exc |-> "none", info |-> Put(info, key, v.val)]

----------------------------------------------------------------------------
(* Row size and field offsets: lines 65-75 *)

\* sum(s * c for s, c in zip(sizes, counts))
RECURSIVE ZipSum(_, _, _)
ZipSum(sizes, counts, n) ==
    IF n = 0 THEN 0
    ELSE ZipSum(sizes, counts, n - 1) + sizes[n] * counts[n]

\* row size that leaves the counts out
RowSizeNoCounts(sizes, counts) ==
    ZipSum(sizes, [n \in 1..Len(counts) |-> 1], Min(Len(sizes), Len(counts)))

RowSize(sizes, counts) == ZipSum(sizes, counts, Min(Len(sizes), Len(counts)))

\* the loop of lines 72-75 from index n on: [exc, printed]
RECURSIVE OffsetLoop(_, _, _, _)
OffsetLoop(info, n, current_offset, printed) ==
    IF n > Len(info["fields"]) THEN [exc |-> "none", printed |-> printed]
    ELSE IF n > Len(info["sizes"]) \/ n > Len(info["counts"])
    THEN [exc |-> "IndexError", printed |-> printed]
    ELSE LET field_size == info["sizes"][n] * info["counts"][n]
         IN  OffsetLoop(info, n + 1, current_offset + field_size,
                        Append(printed, [field  |-> info["fields"][n],
                                         offset |-> current_offset,
                                         size   |-> field_size]))

\* lines 65-75: [computed, exc, row_size, printed]
Geometry(info) ==
    IF ~({"sizes", "counts"} \subseteq DOMAIN info)
    THEN [computed |-> FALSE, exc |-> "none", row_size |-> 0, printed |-> <<>>]
    ELSE LET rs == RowSize(info["sizes"], info["counts"])
         IN  IF "fields" \notin DOMAIN info
             THEN [computed |-> TRUE, exc |-> "KeyError", row_size |-> rs,
                   printed |-> <<>>]
             ELSE LET r == OffsetLoop(info, 1, 0, <<>>)
                  IN  [computed |-> TRUE, exc |-> r.exc, row_size |-> rs,
                       printed |-> r.printed]

----------------------------------------------------------------------------
(* Sample rows: lines 93-125 *)

\* the number of rows the sample loop may print
SampleLimit == 3

\* header_info.get('points', 0)
Points(info) == IF "points" \in DOMAIN info THEN info["points"] ELSE 0

\* number of iterations of range(min(3, points))
RangeLen(info) == Max(0, Min(SampleLimit, Points(info)))

\* the end-of-file test with the comparison off by one
PastEndOfFileStrict(start, n, stride, size) == start + (n + 1) * stride >= size

\* the test of line 100, n the value of the loop variable
PastEndOfFile(start, n, stride, size) == start + (n + 1) * stride > size

\* struct.unpack(fmt, field_data)[0]: [ok, val]; ok = FALSE stands for struct.error
unpack(fmt, width, field_data) ==
    IF Len(field_data) = width
    THEN [ok |-> TRUE, val |-> [fmt |-> fmt, bytes |-> field_data]]
    ELSE [ok |-> FALSE, val |-> [fmt |-> fmt, bytes |-> <<>>]]

\* current_pos += field_size, skipped for a field that is not decoded
AdvanceDecodedOnly(current_pos, field_size) ==
    IF field_size \in {1, 4} THEN current_pos + field_size ELSE current_pos

\* current_pos += field_size (line 122)
Advance(current_pos, field_size) == current_pos + field_size

\* the loop of lines 111-122 from index j on: [exc, values]
RECURSIVE FieldLoop(_, _, _, _, _)
FieldLoop(info, row_data, j, current_pos, values) ==
    IF j > Len(info["fields"]) THEN [exc |-> "none", values |-> values]
    ELSE IF j > Len(info["sizes"]) \/ j > Len(info["counts"])
    THEN [exc |-> "IndexError", values |-> values]
    ELSE LET field_size == info["sizes"][j] * info["counts"][j]
             field_data == Slice(row_data, current_pos, current_pos + field_size)
             u == IF field_size = 4 THEN unpack("<f", 4, field_data)
                  ELSE unpack("<B", 1, field_data)
             v == [j |-> j, field |-> info["fields"][j], pos |-> current_pos,
                   size |-> field_size, value |-> u.val]
         IN  IF field_size \in {1, 4} /\ ~u.ok
             THEN [exc |-> "struct.error", values |-> values]
             ELSE FieldLoop(info, row_data, j + 1, Advance(current_pos, field_size),
                            IF field_size \in {1, 4} THEN Append(values, v)
                            ELSE values)

\* lines 109-122 for one row: [exc, values]
DecodeFields(info, row_data) ==
    IF "fields" \notin DOMAIN info THEN [exc |-> "KeyError", values |-> <<>>]
    ELSE IF ~({"sizes", "counts"} \subseteq DOMAIN info)
    THEN [exc |-> "KeyError", values |-> <<>>]
    ELSE FieldLoop(info, row_data, 1, 0, <<>>)

----------------------------------------------------------------------------
(* Input files *)

cFieldsXY == kFIELDS \o <<" ", "x", " ", "y", "\n">>
cFieldsXI == kFIELDS \o <<" ", "x", " ", "i", "\n">>
cFieldsXNZ == kFIELDS \o <<" ", "x", " ", "n", " ", "z", "\n">>
cFieldsAB == kFIELDS \o <<" ", "a", " ", "b", "\n">>
cFieldsNI == kFIELDS \o <<" ", "n", " ", "i", "\n">>
cFieldsX == kFIELDS \o <<" ", "x", "\n">>
cFieldsB == kFIELDS \o <<" ", "b", "\n">>
cSize41 == kSIZE \o <<" ", "4", " ", "1", "\n">>
cSize421 == kSIZE \o <<" ", "4", " ", "2", " ", "1", "\n">>
cSize21 == kSIZE \o <<" ", "2", " ", "1", "\n">>
cSize11 == kSIZE \o <<" ", "1", " ", "1", "\n">>
cSize44 == kSIZE \o <<" ", "4", " ", "4", "\n">>
cSize4 == kSIZE \o <<" ", "4", "\n">>
cSize1 == kSIZE \o <<" ", "1", "\n">>
cSize0 == kSIZE \o <<" ", "0", "\n">>
cCount11 == kCOUNT \o <<" ", "1", " ", "1", "\n">>
cCount121 == kCOUNT \o <<" ", "1", " ", "2", " ", "1", "\n">>
cCount111 == kCOUNT \o <<" ", "1", " ", "1", " ", "1", "\n">>
cCount31 == kCOUNT \o <<" ", "3", " ", "1", "\n">>
cCount1 == kCOUNT \o <<" ", "1", "\n">>
cTypeFU == kTYPE \o <<" ", "F", " ", "U", "\n">>
cTypeUFI == kTYPE \o <<" ", "U", " ", "F", " ", "I", "\n">>
cWidth2 == kWIDTH \o <<" ", "2", "\n">>
cHeight1 == kHEIGHT \o <<" ", "1", "\n">>
cPoints0 == kPOINTS \o <<" ", "0", "\n">>
cPoints1 == kPOINTS \o <<" ", "1", "\n">>
cPoints2 == kPOINTS \o <<" ", "2", "\n">>
cPoints5 == kPOINTS \o <<" ", "5", "\n">>
cDataBinary == sBinary \o <<"\n">>
cDataCompressed == sCompressed \o <<"\n">>
cDataAscii == sAscii \o <<"\n">>
\* lines that are not well-formed directives
cSizesPrefix == kSIZE \o <<"S", " ", "8", "\n">>
cSizeBad == kSIZE \o <<" ", "q", "\n">>
cSizeLower == <<"s", "i", "z", "e", " ", "2", "\n">>
cWidthBare == kWIDTH \o <<"\n">>
cDataX == kDATA \o <<"X", " ", "q", "\n">>
cDataTwoSpaces == kDATA \o <<" ", " ">> \o tBinary \o <<"\n">>
cDataAsciiPadded == <<" ">> \o sAscii \o <<" ", "\r", "\n">>
cDataBinaryNoNL == sBinary
cDataBadByte == kDATA \o <<" ", "b", "i", "n", BAD, "a", "r", "y", "\n">>
cBlank == <<"\n">>

\* FIELDS, SIZE and COUNT sections, complete and incomplete
Cores ==
    { cFieldsXI \o cSize41 \o cTypeFU \o cCount11 \o cWidth2 \o cHeight1,
      cFieldsXNZ \o cSize421 \o cTypeUFI \o cCount121,
      cFieldsXNZ \o cSize421 \o cTypeUFI \o cCount111,
      cFieldsAB \o cSize21 \o cTypeFU \o cCount11,
      cFieldsNI \o cSize11 \o cCount31,
      cCount1 \o cSize1 \o cFieldsB,
      cFieldsX \o cSize0 \o cCount1 \o cWidth2 \o cHeight1,
      cFieldsX \o cSize44 \o cCount11,
      cFieldsXY \o cSize4 \o cCount1,
      cFieldsXY \o cSize41 \o cCount1,
      cFieldsX \o cSize4,
      cSize4 \o cCount1,
      <<>> }

PointsLines == {<<>>, cPoints0, cPoints1, cPoints2, cPoints5}

DataLines == {<<>>, cDataBinary, cDataCompressed, cDataAscii, cDataAsciiPadded}

Pool ==
    { cFieldsXY, cSize41, cCount11, cPoints2, cDataBinary, cDataCompressed,
      cSizesPrefix, cSizeBad, cSizeLower, cWidthBare, cDataX, cDataTwoSpaces,
      cDataAsciiPadded, cDataBinaryNoNL, cDataBadByte, cBlank }

\* n payload bytes, none of them a line terminator
Payload(n) == [b \in 1..n |-> Digits[(b % 10) + 1]]

RECURSIVE Concat(_)
Concat(chunks) ==
    IF chunks = <<>> THEN <<>> ELSE Head(chunks) \o Concat(Tail(chunks))

\* a header section, a POINTS line, a DATA line and a payload
CoreFiles ==
    { c \o p \o d \o Payload(n) :
        c \in Cores, p \in PointsLines, d \in DataLines, n \in 0..MaxTail }

\* a header section with one more line before or after it
ExtraFiles ==
    { Concat(<<a, c, b>>) \o cPoints5 \o d \o Payload(MaxTail) :
        c \in Cores, d \in {cDataBinary, cDataCompressed},
        a \in Pool \cup {<<>>}, b \in Pool \cup {<<>>} }

\* up to MaxFree lines of the pool, in any order
FreeFiles ==
    { Concat(h) : h \in UNION { [1..n -> Pool] : n \in 0..MaxFree } }

Files == CoreFiles \cup ExtraFiles \cup FreeFiles

Init ==
    /\ path_kind \in {"missing", "unopenable", "file"}
    /\ fileBytes \in (IF path_kind = "file" THEN Files ELSE {<<>>})
    /\ file_size = 0
    /\ pc = "start"
    /\ f = "none"
    /\ opens = 0
    /\ f_pos = 0
    /\ header_lines = <<>>
    /\ line_idx = 1
    /\ header_info = EmptyDict
    /\ row_size = 0
    /\ row_size_bound = FALSE
    /\ offsets = <<>>
    /\ data_start = 0
    /\ data_size = 0
    /\ i = 0
    /\ records = <<>>
    /\ reads = <<>>
    /\ out = <<>>
    /\ exc = "none"

----------------------------------------------------------------------------
(* analyze_pcd_file *)

Repeat(tag, n) == [m \in 1..n |-> tag]

\* leaving the with block without closing the file
WithExitLeak(handle) == handle

\* leaving the with block of line 23, normally or by an exception
WithExit(handle) == "closed"

\* lines 16-18: the path does not exist
NotFound ==
    /\ pc = "start"
    /\ path_kind = "missing"
    /\ pc' = "done"
    /\ out' = out \o <<"title", "not_found">>
    /\ UNCHANGED <<path_kind, fileBytes, file_size, f, opens, f_pos, header_lines,
                   line_idx, header_info, row_size, row_size_bound, offsets,
                   data_start, data_size, i, records, reads, exc>>

\* lines 16-23: the path exists and open() raises
OpenFails ==
    /\ pc = "start"
    /\ path_kind = "unopenable"
    /\ file_size' = Len(fileBytes)
    /\ pc' = "raised"
    /\ exc' = "OSError"
    /\ out' = out \o <<"title", "file_size">>
    /\ UNCHANGED <<path_kind, fileBytes, f, opens, f_pos, header_lines, line_idx,
                   header_info, row_size, row_size_bound, offsets, data_start,
                   data_size, i, records, reads>>

\* lines 16-25: the path exists and open() returns the file object
Open ==
    /\ pc = "start"
    /\ path_kind = "file"
    /\ file_size' = Len(fileBytes)
    /\ f' = "open"
    /\ opens' = opens + 1
    /\ f_pos' = 0
    /\ header_lines' = <<>>
    /\ pc' = "lex"
    /\ out' = out \o <<"title", "file_size">>
    /\ UNCHANGED <<path_kind, fileBytes, line_idx, header_info, row_size,
                   row_size_bound, offsets, data_start, data_size, i, records,
                   reads, exc>>

\* lines 26-41: one iteration of the header loop; when the loop ends, the
\* header is printed and header_info starts empty
ReadLine ==
    /\ pc = "lex"
    /\ LET line     == readline(fileBytes, f_pos)
           line_str == strip(decode(line))
           lines    == IF line = <<>> THEN header_lines
                       ELSE Append(header_lines, line_str)
           ends     == line = <<>> \/ IsSentinel(line_str)
       IN  /\ f_pos' = f_pos + Len(line)
           /\ header_lines' = lines
           /\ IF ends
              THEN /\ pc' = "parse"
                   /\ out' = out \o <<"header_count">>
                                 \o Repeat("header_line", Len(lines))
                   /\ header_info' = EmptyDict
                   /\ line_idx' = 1
              ELSE UNCHANGED <<pc, out, header_info, line_idx>>
    /\ UNCHANGED <<path_kind, fileBytes, file_size, f, opens, row_size,
                   row_size_bound, offsets, data_start, data_size, i, records,
                   reads, exc>>

\* lines 42-58: one iteration of the loop over header_lines
ParseLine ==
    /\ pc = "parse"
    /\ line_idx <= Len(header_lines)
    /\ LET r == ParseHeaderLine(header_info, header_lines[line_idx])
       IN  IF r.exc = "none"
           THEN /\ header_info' = r.info
                /\ line_idx' = line_idx + 1
                /\ UNCHANGED <<pc, f, exc>>
           ELSE /\ pc' = "raised"
                /\ exc' = r.exc
                /\ f' = WithExit(f)
                /\ UNCHANGED <<header_info, line_idx>>
    /\ UNCHANGED <<path_kind, fileBytes, file_size, opens, f_pos, header_lines,
                   row_size, row_size_bound, offsets, data_start, data_size, i,
                   records, reads, out>>

\* lines 60-75: print header_info, compute row_size and the field offsets
ComputeGeometry ==
    /\ pc = "parse"
    /\ line_idx > Len(header_lines)
    /\ LET g == Geometry(header_info)
       IN  /\ row_size_bound' = g.computed
           /\ row_size' = g.row_size
           /\ offsets' = g.printed
           /\ out' = out \o <<"info_title">>
                         \o Repeat("info_item", Cardinality(DOMAIN header_info))
                         \o (IF g.computed THEN <<"row_size", "offsets_title">>
                             ELSE <<>>)
                         \o Repeat("offset", Len(g.printed))
           /\ IF g.exc = "none"
              THEN /\ pc' = "data"
                   /\ UNCHANGED <<f, exc>>
              ELSE /\ pc' = "raised"
                   /\ exc' = g.exc
                   /\ f' = WithExit(f)
    /\ UNCHANGED <<path_kind, fileBytes, file_size, opens, f_pos, header_lines,
                   line_idx, header_info, data_start, data_size, i, records,
                   reads>>

\* header_info.get('data_type'), <<>> standing for None
DataType(info) == IF "data_type" \in DOMAIN info THEN info["data_type"] ELSE <<>>

\* the test of line 93 admitting binary only
SamplesWantedBinaryOnly(info) == DataType(info) = tBinary

\* the test of line 93
SamplesWanted(info) == DataType(info) \in {tBinary, tCompressed}

\* lines 78-96: the data segment bounds, the format note, and either the
\* seek that starts the sample loop or the end of the function
DataSegment ==
    /\ pc = "data"
    /\ data_start' = f_pos
    /\ data_size' = file_size - f_pos
    /\ LET note == IF DataType(header_info) = tCompressed
                   THEN <<"format_compressed", "decompression_note">>
                   ELSE IF DataType(header_info) = tBinary
                   THEN <<"format_binary">>
                   ELSE <<"format_ascii">>
       IN  IF SamplesWanted(header_info)
           THEN /\ out' = out \o <<"data_segment">> \o note \o <<"samples_title">>
                /\ f_pos' = f_pos
                /\ i' = 0
                /\ pc' = "decode"
                /\ f' = f
           ELSE /\ out' = out \o <<"data_segment">> \o note
                /\ pc' = "done"
                /\ f' = WithExit(f)
                /\ UNCHANGED <<f_pos, i>>
    /\ UNCHANGED <<path_kind, fileBytes, file_size, opens, header_lines, line_idx,
                   header_info, row_size, row_size_bound, offsets, records, reads,
                   exc>>

\* lines 99-125: one iteration of the sample loop; a break or a caught
\* exception ends the function
DecodeRow ==
    /\ pc = "decode"
    /\ i < RangeLen(header_info)
    /\ IF ~row_size_bound
       THEN \* line 100 reads the unassigned local: caught at line 124
            /\ exc' = "UnboundLocalError"
            /\ out' = Append(out, "read_error")
            /\ pc' = "done"
            /\ f' = WithExit(f)
            /\ UNCHANGED <<f_pos, i, records, reads>>
       ELSE IF PastEndOfFile(data_start, i, row_size, file_size)
       THEN /\ pc' = "done"
            /\ f' = WithExit(f)
            /\ UNCHANGED <<f_pos, i, records, reads, out, exc>>
       ELSE LET row_data == read(fileBytes, f_pos, row_size)
                r == DecodeFields(header_info, row_data)
            IN  /\ f_pos' = f_pos + Len(row_data)
                /\ reads' = Append(reads, [at |-> f_pos, n |-> row_size,
                                           got |-> Len(row_data)])
                /\ IF Len(row_data) < row_size
                   THEN /\ pc' = "done"
                        /\ f' = WithExit(f)
                        /\ UNCHANGED <<i, records, out, exc>>
                   ELSE IF r.exc # "none"
                   THEN /\ exc' = r.exc
                        /\ records' = Append(records, r.values)
                        /\ out' = out \o <<"point">>
                                      \o Repeat("value", Len(r.values))
                                      \o <<"read_error">>
                        /\ pc' = "done"
                        /\ f' = WithExit(f)
                        /\ i' = i
                   ELSE /\ records' = Append(records, r.values)
                        /\ out' = out \o <<"point">>
                                      \o Repeat("value", Len(r.values))
                        /\ i' = i + 1
                        /\ UNCHANGED <<pc, f, exc>>
    /\ UNCHANGED <<path_kind, fileBytes, file_size, opens, header_lines, line_idx,
                   header_info, row_size, row_size_bound, offsets, data_start,
                   data_size>>

\* the range of line 99 is exhausted: the function returns
SamplesDone ==
    /\ pc = "decode"
    /\ i >= RangeLen(header_info)
    /\ pc' = "done"
    /\ f' = WithExit(f)
    /\ UNCHANGED <<path_kind, fileBytes, file_size, opens, f_pos, header_lines,
                   line_idx, header_info, row_size, row_size_bound, offsets,
                   data_start, data_size, i, records, reads, out, exc>>

Next ==
    \/ NotFound
    \/ OpenFails
    \/ Open
    \/ ReadLine
    \/ ParseLine
    \/ ComputeGeometry
    \/ DataSegment
    \/ DecodeRow
    \/ SamplesDone

Spec == Init /\ [][Next]_vars

----------------------------------------------------------------------------
(* Properties *)

Returned == pc = "done" /\ opens = 1

Printed(tag) == \E n \in 1..Len(out) : out[n] = tag

\* FIELDS, SIZE and COUNT are all present with lists of one length
Complete(info) ==
    /\ {"fields", "sizes", "counts"} \subseteq DOMAIN info
    /\ Len(info["fields"]) = Len(info["sizes"])
    /\ Len(info["sizes"]) = Len(info["counts"])

\* size_n * count_n
Span(info, n) == info["sizes"][n] * info["counts"][n]

\* the sum of size_n * count_n over the fields before field j
RECURSIVE SpanBefore(_, _)
SpanBefore(info, j) ==
    IF j <= 1 THEN 0 ELSE SpanBefore(info, j - 1) + Span(info, j - 1)

GeometryDone == pc \in {"data", "decode", "done"} /\ row_size_bound

(* C1: when the DATA directive is binary_compressed or ascii, no row is
   decoded and no stride-sized read of the data segment is made; for
   binary_compressed the decompression note is printed. *)
C1_DecodesOnlyBinary ==
    (Returned /\ DataType(header_info) \in {tCompressed, tAscii})
        => /\ Len(records) = 0
           /\ Len(reads) = 0
           /\ DataType(header_info) = tCompressed => Printed("decompression_note")

\* FIELDS, SIZE or COUNT is missing, or their lists differ in length
Incomplete(info) == ~Complete(info)

(* C2: once the file is open no exception reaches the caller: when FIELDS,
   SIZE or COUNT is missing from the header lines read, or their lists
   differ in length, the analysis returns normally with no record decoded
   and with the file size, the header lines and the data segment
   reported. *)
C2_NoExceptionPropagates ==
    (/\ opens = 1
     /\ pc \in {"done", "raised"}
     /\ line_idx > Len(header_lines)
     /\ Incomplete(header_info))
        => /\ pc = "done"
           /\ Len(records) = 0
           /\ Printed("file_size")
           /\ Printed("header_count")
           /\ Printed("data_segment")

C3_Case ==
    /\ DataType(header_info) = tBinary
    /\ Complete(header_info)
    /\ "points" \in DOMAIN header_info
    /\ row_size_bound
    /\ row_size > 0

(* C3: for a binary payload with a complete schema and a positive stride,
   the rows decoded number min(3, POINTS, data_size div stride); row n is
   read as exactly stride bytes at data_start + n * stride, no read reaches
   past the end of the file, and a truncated tail ends the loop without an
   error, the rows already decoded being kept. *)
C3_SampleCount ==
    (pc \in {"decode", "done"} /\ C3_Case)
        => LET k == Min(3, Min(header_info["points"], data_size \div row_size))
           IN  /\ Len(records) <= k
               /\ pc = "done" => Len(records) = k
               /\ Len(reads) = Len(records)
               /\ \A n \in 1..Len(reads) :
                     /\ reads[n] = [at  |-> data_start + (n - 1) * row_size,
                                    n   |-> row_size,
                                    got |-> row_size]
                     /\ reads[n].at + reads[n].n <= file_size
               /\ exc = "none"

C3_Witness ==
    /\ pc = "done"
    /\ C3_Case
    /\ header_info["points"] = 5
    /\ data_size % row_size # 0
    /\ Len(records) = 2

(* C4: with FIELDS, SIZE and COUNT present and of one length, row_size is
   the sum of size_n * count_n over all fields, the first offset is 0, each
   later offset is the previous one plus the previous field's
   size * count, and permuting the fields leaves row_size unchanged. *)
C4_StrideAndOffsets ==
    (GeometryDone /\ Complete(header_info))
        => LET cnt == Len(header_info["fields"])
           IN  /\ row_size = SpanBefore(header_info, cnt + 1)
               /\ Len(offsets) = cnt
               /\ cnt > 0 => offsets[1].offset = 0
               /\ \A n \in 2..cnt :
                     offsets[n].offset =
                         offsets[n - 1].offset + Span(header_info, n - 1)
               /\ \A p \in Permutations(1..cnt) :
                     RowSize([n \in 1..cnt |-> header_info["sizes"][p[n]]],
                             [n \in 1..cnt |-> header_info["counts"][p[n]]])
                         = row_size

C4_Witness ==
    /\ pc = "done"
    /\ row_size_bound
    /\ Complete(header_info)
    /\ Len(header_info["fields"]) = 3
    /\ header_info["counts"][2] = 2
    /\ offsets[3].offset = 8
    /\ row_size = 9

Sentinels == {sCompressed, sBinary, sAscii}

\* the lines of a byte sequence, each with its terminator
RECURSIVE RawLines(_, _)
RawLines(bytes, cur) ==
    IF bytes = <<>> THEN (IF cur = <<>> THEN <<>> ELSE <<cur>>)
    ELSE IF Head(bytes) = "\n"
    THEN <<Append(cur, "\n")>> \o RawLines(Tail(bytes), <<>>)
    ELSE RawLines(Tail(bytes), Append(cur, Head(bytes)))

TextLines(bytes) ==
    LET raw == RawLines(bytes, <<>>)
    IN  [n \in 1..Len(raw) |-> strip(decode(raw[n]))]

\* index of the first sentinel among the lines, 0 when there is none
FirstSentinel(lines) ==
    IF \E n \in 1..Len(lines) : lines[n] \in Sentinels
    THEN CHOOSE n \in 1..Len(lines) :
            /\ lines[n] \in Sentinels
            /\ \A m \in 1..(n - 1) : lines[m] \notin Sentinels
    ELSE 0

\* number of bytes in the first k lines
RECURSIVE BytesOfLines(_, _)
BytesOfLines(raw, k) ==
    IF k = 0 THEN 0 ELSE BytesOfLines(raw, k - 1) + Len(raw[k])

(* C5: the header lines end with the first line that is exactly one of the
   three DATA sentinels, and the data segment starts at the byte after
   that line with length file_size - start; with no sentinel all lines are
   returned, the cursor is at the end of the file and the data segment is
   empty. *)
C5_HeaderEndsAtSentinel ==
    (opens = 1 /\ pc \notin {"start", "lex"})
        => LET raw   == RawLines(fileBytes, <<>>)
               text  == TextLines(fileBytes)
               k     == FirstSentinel(text)
               start == IF k > 0 THEN BytesOfLines(raw, k) ELSE file_size
           IN  /\ header_lines = (IF k > 0 THEN SubSeq(text, 1, k) ELSE text)
               /\ k > 0 => /\ header_lines[Len(header_lines)] \in Sentinels
                           /\ \A n \in 1..(Len(header_lines) - 1) :
                                 header_lines[n] \notin Sentinels
               /\ pc \in {"parse", "data", "raised"} => f_pos = start
               /\ Printed("data_segment")
                     => /\ data_start = start
                        /\ data_size = file_size - start
                        /\ k = 0 => data_size = 0

C5_Witness ==
    /\ pc = "done"
    /\ Len(header_lines) >= 2
    /\ header_lines[Len(header_lines)] \in Sentinels
    /\ Len(RawLines(fileBytes, <<>>)) > Len(header_lines)
    /\ data_start < file_size
    /\ data_size = file_size - data_start

(* C6: a header line whose leading token is not exactly one of FIELDS, SIZE,
   TYPE, COUNT, WIDTH, HEIGHT, POINTS, DATA leaves header_info unchanged. *)
C6_OnlyExactKeywords ==
    [][(/\ pc = "parse"
        /\ line_idx <= Len(header_lines)
        /\ DispatchFirstToken(header_lines[line_idx]) = "")
          => header_info' = header_info]_vars

(* C7: a report that lacks the row geometry says that the geometry is
   unavailable, and a report whose decoding was skipped carries a note
   naming the cause: incomplete schema, compressed payload or ASCII
   payload. *)
C7_AbsentPiecesAnnotated ==
    Returned
        => /\ ~row_size_bound => Printed("geometry_unavailable")
           /\ (Len(records) = 0 /\ Incomplete(header_info))
                 => Printed("incomplete_schema_note")
           /\ DataType(header_info) = tCompressed
                 => Printed("decompression_note")
           /\ ~SamplesWanted(header_info) => Printed("format_ascii")

(* C8: the file is opened at most once; in every terminal state (return,
   short header, truncated row, error caught in the sample loop, exception
   from the schema or geometry code) it is closed; when the path does not
   exist it is never opened. *)
C8_HandleReleased ==
    /\ opens <= 1
    /\ f = "open" => opens = 1 /\ pc \in {"lex", "parse", "data", "decode"}
    /\ pc \in {"done", "raised"} => f = (IF opens = 1 THEN "closed" ELSE "none")
    /\ path_kind = "missing" => opens = 0 /\ f = "none"

C8_Witness ==
    /\ pc = "raised"
    /\ exc = "KeyError"
    /\ opens = 1
    /\ f = "closed"

Keys == {"fields", "sizes", "types", "counts", "width", "height", "points",
         "data_type"}

\* the loop of lines 42-58 over a whole list of lines: [exc, info]
RECURSIVE ParseAll(_, _)
ParseAll(info, lines) ==
    IF lines = <<>> THEN [exc |-> "none", info |-> info]
    ELSE LET r == ParseHeaderLine(info, Head(lines))
         IN  IF r.exc # "none" THEN r ELSE ParseAll(r.info, Tail(lines))

SwapAt(lines, n) ==
    [m \in 1..Len(lines) |->
        IF m = n THEN lines[n + 1] ELSE IF m = n + 1 THEN lines[n] ELSE lines[m]]

\* index of the last line whose leading token is the keyword of key, 0 if none
LastOccurrence(lines, key) ==
    LET occ == {n \in 1..Len(lines) : DispatchFirstToken(lines[n]) = key}
    IN  IF occ = {} THEN 0 ELSE CHOOSE n \in occ : \A m \in occ : m <= n

(* C9: header_info holds, for each directive keyword, the value of the last
   line that carries it and nothing for a keyword no line carries, and
   exchanging two neighbouring lines that carry different directive
   keywords does not change header_info. *)
C9_LastOccurrenceWins ==
    (pc = "data")
        => /\ \A key \in Keys :
                 LET n == LastOccurrence(header_lines, key)
                 IN  IF n = 0 THEN key \notin DOMAIN header_info
                     ELSE /\ key \in DOMAIN header_info
                          /\ header_info[key] = LineValue(header_lines[n]).val
           /\ \A n \in 1..(Len(header_lines) - 1) :
                 (/\ DispatchFirstToken(header_lines[n]) # ""
                  /\ DispatchFirstToken(header_lines[n + 1]) # ""
                  /\ DispatchFirstToken(header_lines[n])
                        # DispatchFirstToken(header_lines[n + 1]))
                    => ParseAll(EmptyDict, SwapAt(header_lines, n))
                          = [exc |-> "none", info |-> header_info]

\* the fields of a row that have a 4-byte or a 1-byte span, in FIELDS order
DecodableFields(info) ==
    SelectSeq([j \in 1..Len(info["fields"]) |-> j],
              LAMBDA j : Span(info, j) \in {1, 4})

(* C10: every decoded row lists, in FIELDS order, exactly the fields whose
   span size * count is 4 (read as '<f') or 1 (read as '<B'); field j is
   taken from the row at the offset the geometry step printed for it, the
   sum of the spans of the fields before it, with its own span as length;
   a field of another span is left out without an error and does not move
   the fields after it. *)
C10_FieldSlices ==
    \A k \in 1..Len(records) :
        LET row  == records[k]
            js   == DecodableFields(header_info)
            base == data_start + (k - 1) * row_size
        IN  /\ exc = "none"
            /\ Len(row) = Len(js)
            /\ \A m \in 1..Len(row) :
                  LET v == row[m]
                      j == js[m]
                  IN  /\ v.j = j
                      /\ v.field = header_info["fields"][j]
                      /\ v.pos = SpanBefore(header_info, j)
                      /\ v.pos = offsets[j].offset
                      /\ v.size = Span(header_info, j)
                      /\ v.size = offsets[j].size
                      /\ v.value.fmt = (IF v.size = 4 THEN "<f" ELSE "<B")
                      /\ v.value.bytes =
                            SubSeq(fileBytes, base + v.pos + 1, base + v.pos + v.size)

C10_Witness ==
    /\ pc = "done"
    /\ Len(records) >= 1
    /\ "types" \in DOMAIN header_info
    /\ Len(header_info["fields"]) = 3
    /\ Span(header_info, 2) \notin {1, 4}
    /\ Len(records[1]) = 2
    /\ records[1][2].j = 3
    /\ records[1][2].pos = 6

====
